---- MODULE Spec2Model ----
(***************************************************************************)
(* Crosslink winning-root selection of per-epoch processing                *)
(* (eth2/state_processing/src/per_epoch_processing/winning_root.rs).       *)
(*                                                                         *)
(* winning_root collects the distinct crosslink data roots attested for a  *)
(* shard into a HashSet, scores every root (participants of the matching   *)
(* records, then the u64 sum of their effective balances) and keeps the    *)
(* best candidate under WinningRoot::is_better_than.                       *)
(*                                                                         *)
(* Hash256 values are modelled by small naturals under their               *)
(* numeric order.  u64 is modelled by the naturals below 2^U64_BITS: TLC's *)
(* integers are 32 bits wide, so the word is scaled and every addition of  *)
(* the program is done in that word.                                       *)
(*                                                                         *)
(* Spec starts the call in a consistent beacon state: every committee      *)
(* member is in the registry and the balances are far below the top of the *)
(* word.  SpecAny starts it anywhere in the argument types: a registry     *)
(* shorter than the committees, balances up to the top of the word, either *)
(* build.  SpecCmp runs the comparator alone.                              *)
(***************************************************************************)
EXTENDS Integers, Sequences, FiniteSets, TLC

VARIABLES
    validator_balances,            \* state: the registry's effective balances, index i at i+1
    overflow_checks,               \* the build: TRUE panics on u64 overflow, FALSE wraps
    shard,                         \* argument `shard`
    current_epoch_attestations,    \* argument, a sequence of attestation records
    previous_epoch_attestations,   \* argument, a sequence of attestation records
    pc,                            \* position in winning_root
    crosslink_data_roots,          \* the roots of the HashSet not yet enumerated
    winning_root_opt,              \* `let mut winning_root`: <<>> is None, <<w>> is Some(w)
    lookups,                       \* the records handed to get_attestation_participants so far
    last_call,                     \* the latest return of get_attesting_validator_indices
    scored,                        \* the number of candidates built so far
    result,                        \* what winning_root gave back to its caller
    cand,                          \* comparator harness: three candidates
    better                         \* comparator harness: is_better_than over `cand`

vars == <<validator_balances, overflow_checks, shard, current_epoch_attestations,
          previous_epoch_attestations, pc, crosslink_data_roots, winning_root_opt,
          lookups, last_call, scored, result, cand, better>>

-----------------------------------------------------------------------------
(* Bounds of the model *)

MaxRecords == 2

(* The width of the scaled u64 word *)
U64_BITS == 8

U64_MAX == 2^U64_BITS - 1

Shards == {3, 4}
Roots == {1, 2, 3}
Validators == {0, 1}
Balances == {1, 2}

LookupErrors == {"InvalidBitfield", "NoCommitteeForShard"}

(* The participant lists a committee lookup can return: the members whose
   bit is set, in committee order. *)
ParticipantLists ==
    {p \in UNION {[1..n -> Validators] : n \in 1..Cardinality(Validators)} :
        \A i \in 1..(Len(p) - 1) : p[i] < p[i + 1]}

(* What state.get_attestation_participants returns for a record. *)
LookupResults ==
    {[err |-> "none", indices |-> p] : p \in ParticipantLists}
        \cup {[err |-> e, indices |-> <<>>] : e \in LookupErrors}

(* PendingAttestation, reduced to data.shard, data.crosslink_data_root and the
   outcome of the committee lookup on (data, aggregation_bitfield).  The call is
   made for shard 3; of a record of another shard nothing but the shard is ever
   read, so those records carry one root, with every lookup outcome. *)
PendingAttestation ==
    {a \in [shard : Shards, crosslink_data_root : Roots, participants : LookupResults] :
        a.shard # 3 => a.crosslink_data_root = 1}

get_attestation_participants(a) == a.participants

-----------------------------------------------------------------------------
(* WinningRoot *)

WinningRoot(root, indices, total) ==
    [crosslink_data_root |-> root,
     attesting_validator_indices |-> indices,
     total_attesting_balance |-> total]

(* Mutant: the tie is decided with <= on the roots. *)
is_better_than_tie_le(self, other) ==
    IF self.total_attesting_balance > other.total_attesting_balance
    THEN TRUE
    ELSE IF self.total_attesting_balance = other.total_attesting_balance
         THEN self.crosslink_data_root <= other.crosslink_data_root
         ELSE FALSE

is_better_than(self, other) ==
    IF self.total_attesting_balance > other.total_attesting_balance
    THEN TRUE
    ELSE IF self.total_attesting_balance = other.total_attesting_balance
         THEN self.crosslink_data_root < other.crosslink_data_root
         ELSE FALSE

-----------------------------------------------------------------------------
(* get_attesting_validator_indices *)

Matches(a, s, root) == (a.shard = s) /\ (a.crosslink_data_root = root)

(* Mutant: the loop breaks after the first matching record. *)
RECURSIVE ScanAttestations_first_match(_, _, _, _)
ScanAttestations_first_match(atts, s, root, acc) ==
    IF atts = <<>>
    THEN acc
    ELSE LET a == Head(atts)
         IN  IF Matches(a, s, root)
             THEN LET p == get_attestation_participants(a)
                  IN  IF p.err # "none"
                      THEN [err |-> p.err, indices |-> <<>>,
                            calls |-> Append(acc.calls, a)]
                      ELSE [err |-> "none",
                            indices |-> acc.indices \o p.indices,
                            calls |-> Append(acc.calls, a)]
             ELSE ScanAttestations_first_match(Tail(atts), s, root, acc)

(* Mutant: a record whose lookup fails is skipped. *)
RECURSIVE ScanAttestations_skip_failed(_, _, _, _)
ScanAttestations_skip_failed(atts, s, root, acc) ==
    IF atts = <<>>
    THEN acc
    ELSE LET a == Head(atts)
         IN  IF Matches(a, s, root)
             THEN LET p == get_attestation_participants(a)
                  IN  ScanAttestations_skip_failed(Tail(atts), s, root,
                          [err |-> "none",
                           indices |-> acc.indices \o p.indices,
                           calls |-> Append(acc.calls, a)])
             ELSE ScanAttestations_skip_failed(Tail(atts), s, root, acc)

(* The loop over the chained lists: `acc` holds the indices appended so far and
   the records handed to the lookup; a failing lookup returns at once. *)
RECURSIVE ScanAttestations(_, _, _, _)
ScanAttestations(atts, s, root, acc) ==
    IF atts = <<>>
    THEN acc
    ELSE LET a == Head(atts)
         IN  IF Matches(a, s, root)
             THEN LET p == get_attestation_participants(a)
                  IN  IF p.err # "none"
                      THEN [err |-> p.err, indices |-> <<>>,
                            calls |-> Append(acc.calls, a)]
                      ELSE ScanAttestations(Tail(atts), s, root,
                               [err |-> "none",
                                indices |-> acc.indices \o p.indices,
                                calls |-> Append(acc.calls, a)])
             ELSE ScanAttestations(Tail(atts), s, root, acc)

(* Mutant: the previous-epoch list is chained first, as in the root set. *)
ChainedAttestations_prev_first(cur, prev) == prev \o cur

ChainedAttestations(cur, prev) == cur \o prev

get_attesting_validator_indices(s, cur, prev, root) ==
    ScanAttestations(ChainedAttestations(cur, prev), s, root,
                     [err |-> "none", indices |-> <<>>, calls |-> <<>>])

-----------------------------------------------------------------------------
(* The balance fold of winning_root *)

KnownValidator(balances, i) == i + 1 \in DOMAIN balances

get_effective_balance(balances, i) == balances[i + 1]

(* acc + x on u64: a build with overflow checks panics, one without wraps. *)
AddU64(acc, x, checks) ==
    IF acc + x <= U64_MAX
    THEN [status |-> "ok", value |-> acc + x]
    ELSE IF checks
         THEN [status |-> "panic", value |-> 0]
         ELSE [status |-> "ok", value |-> (acc + x) % (U64_MAX + 1)]

RECURSIVE FoldBalance(_, _, _, _)
FoldBalance(balances, indices, acc, checks) ==
    IF indices = <<>>
    THEN [status |-> "ok", value |-> acc]
    ELSE IF ~KnownValidator(balances, Head(indices))
         THEN [status |-> "panic", value |-> 0]
         ELSE LET sum == AddU64(acc, get_effective_balance(balances, Head(indices)),
                                checks)
              IN  IF sum.status = "panic"
                  THEN sum
                  ELSE FoldBalance(balances, Tail(indices), sum.value, checks)

(* Mutant: every validator is counted once. *)
total_attesting_balance_dedup(balances, indices, checks) ==
    LET RECURSIVE Distinct(_)
        Distinct(seq) ==
            IF seq = <<>>
            THEN <<>>
            ELSE <<Head(seq)>>
                     \o Distinct(SelectSeq(Tail(seq), LAMBDA v : v # Head(seq)))
    IN  FoldBalance(balances, Distinct(indices), 0, checks)

total_attesting_balance(balances, indices, checks) ==
    FoldBalance(balances, indices, 0, checks)

-----------------------------------------------------------------------------
(* winning_root *)

None == <<>>
Some(x) == <<x>>

(* Mutant: the roots of every shard are collected. *)
CollectRoots_any_shard(s, cur, prev) ==
    {(prev \o cur)[i].crosslink_data_root : i \in 1..(Len(prev) + Len(cur))}

(* The HashSet built from both lists: the roots of the records of shard `s`. *)
CollectRoots(s, cur, prev) ==
    {(prev \o cur)[i].crosslink_data_root :
        i \in {j \in 1..(Len(prev) + Len(cur)) : (prev \o cur)[j].shard = s}}

(* The local state of the `for` loop before its first iteration. *)
LoopStart ==
    [outcome |-> "running", err |-> "none", winning_root |-> None,
     lookups |-> <<>>, last_call |-> None, scored |-> 0]

(* Mutant: the latest candidate always replaces the winner. *)
UpdateWinner_last_wins(winner, candidate) == Some(candidate)

(* `Some(candidate)` replaces the winner when there is none or when the
   candidate is better. *)
UpdateWinner(winner, candidate) ==
    IF winner # None
    THEN IF is_better_than(candidate, winner[1]) THEN Some(candidate) ELSE winner
    ELSE Some(candidate)

(* One iteration of the loop for `root`; in = the arguments and the state. *)
ProcessRoot(in, ls, root) ==
    LET got == get_attesting_validator_indices(in.shard, in.cur, in.prev, root)
        call == Some([root |-> root, err |-> got.err, indices |-> got.indices,
                      calls |-> got.calls])
        seen == ls.lookups \o got.calls
    IN  IF got.err # "none"
        THEN [ls EXCEPT !.outcome = "err", !.err = got.err,
                        !.lookups = seen, !.last_call = call]
        ELSE LET total == total_attesting_balance(in.balances, got.indices, in.checks)
             IN  IF total.status = "panic"
                 THEN [ls EXCEPT !.outcome = "panic",
                                 !.lookups = seen, !.last_call = call]
                 ELSE [ls EXCEPT
                         !.winning_root =
                             UpdateWinner(ls.winning_root,
                                          WinningRoot(root, got.indices, total.value)),
                         !.lookups = seen, !.last_call = call,
                         !.scored = ls.scored + 1]

(* What the caller receives once the loop has ended in `ls`. *)
ResultOf(ls) ==
    IF ls.outcome = "err"
    THEN [kind |-> "Err", err |-> ls.err, value |-> None]
    ELSE IF ls.outcome = "panic"
         THEN [kind |-> "Panic", err |-> "none", value |-> None]
         ELSE [kind |-> "Ok", err |-> "none", value |-> ls.winning_root]

(* The whole loop when the HashSet yields its roots in the order `order`. *)
RECURSIVE RunLoop(_, _, _)
RunLoop(in, ls, order) ==
    IF order = <<>> \/ ls.outcome # "running"
    THEN ls
    ELSE RunLoop(in, ProcessRoot(in, ls, Head(order)), Tail(order))

winning_root(in, order) == ResultOf(RunLoop(in, LoopStart, order))

-----------------------------------------------------------------------------
(* The state machine *)

Pending == [kind |-> "Pending", err |-> "none", value |-> None]

Args ==
    [balances |-> validator_balances, checks |-> overflow_checks, shard |-> shard,
     cur |-> current_epoch_attestations, prev |-> previous_epoch_attestations]

Loop ==
    [outcome |-> "running", err |-> "none", winning_root |-> winning_root_opt,
     lookups |-> lookups, last_call |-> last_call, scored |-> scored]

SeqsUpTo(S, n) == UNION {[1..k -> S] : k \in 0..n}

InitCall ==
    /\ pc = "start"
    /\ crosslink_data_roots = {}
    /\ winning_root_opt = None
    /\ lookups = <<>>
    /\ last_call = None
    /\ scored = 0
    /\ result = Pending
    /\ cand = <<>>
    /\ better = <<>>

InitArgs ==
    /\ shard = 3
    /\ current_epoch_attestations \in SeqsUpTo(PendingAttestation, MaxRecords)
    /\ previous_epoch_attestations \in
           SeqsUpTo(PendingAttestation, MaxRecords - Len(current_epoch_attestations))

(* A registry that holds every committee member, with effective balances so
   far below the top of u64 that no sum reaches it: the build setting has no
   effect there, and one build is explored. *)
Init ==
    /\ validator_balances \in [1..Cardinality(Validators) -> Balances]
    /\ overflow_checks = FALSE
    /\ InitArgs
    /\ InitCall

(* Lines 44-57: the winner starts absent and the HashSet is built. *)
Collect ==
    /\ pc = "start"
    /\ crosslink_data_roots' =
           CollectRoots(shard, current_epoch_attestations, previous_epoch_attestations)
    /\ pc' = "loop"
    /\ UNCHANGED <<validator_balances, overflow_checks, shard,
                   current_epoch_attestations, previous_epoch_attestations,
                   winning_root_opt, lookups, last_call, scored, result, cand, better>>

(* Lines 59-86: one iteration, for whichever root the HashSet yields next. *)
Score(root) ==
    /\ pc = "loop"
    /\ root \in crosslink_data_roots
    /\ LET ls == ProcessRoot(Args, Loop, root)
       IN  /\ winning_root_opt' = ls.winning_root
           /\ lookups' = ls.lookups
           /\ last_call' = ls.last_call
           /\ scored' = ls.scored
           /\ crosslink_data_roots' = crosslink_data_roots \ {root}
           /\ IF ls.outcome = "running"
              THEN pc' = "loop" /\ result' = result
              ELSE pc' = "done" /\ result' = ResultOf(ls)
    /\ UNCHANGED <<validator_balances, overflow_checks, shard,
                   current_epoch_attestations, previous_epoch_attestations,
                   cand, better>>

(* Line 88: Ok(winning_root). *)
Return ==
    /\ pc = "loop"
    /\ crosslink_data_roots = {}
    /\ result' = ResultOf(Loop)
    /\ pc' = "done"
    /\ UNCHANGED <<validator_balances, overflow_checks, shard,
                   current_epoch_attestations, previous_epoch_attestations,
                   crosslink_data_roots, winning_root_opt, lookups, last_call,
                   scored, cand, better>>

Next ==
    \/ Collect
    \/ \E root \in Roots : Score(root)
    \/ Return

Spec == Init /\ [][Next]_vars

(* Any registry and any effective balance of the u64 range: a registry may be
   shorter than the committees, and balances reach the top of the word. *)
AnyBalances == {1, U64_MAX}

InitAny ==
    /\ validator_balances \in
           UNION {[1..n -> AnyBalances] : n \in 1..Cardinality(Validators)}
    /\ overflow_checks \in BOOLEAN
    /\ InitArgs
    /\ InitCall

SpecAny == InitAny /\ [][Next]_vars

-----------------------------------------------------------------------------
(* The comparator on its own: three candidates, compared pairwise *)

CandidateTotals == {0, 1, U64_MAX}

Candidates ==
    [crosslink_data_root : Roots,
     attesting_validator_indices : ParticipantLists,
     total_attesting_balance : CandidateTotals]

InitCmp ==
    /\ cand \in [1..3 -> Candidates]
    /\ better = <<>>
    /\ pc = "cmp"
    /\ validator_balances = <<>>
    /\ overflow_checks = FALSE
    /\ shard = 3
    /\ current_epoch_attestations = <<>>
    /\ previous_epoch_attestations = <<>>
    /\ crosslink_data_roots = {}
    /\ winning_root_opt = None
    /\ lookups = <<>>
    /\ last_call = None
    /\ scored = 0
    /\ result = Pending

Compare ==
    /\ pc = "cmp"
    /\ better' = [i \in 1..3 |-> [j \in 1..3 |-> is_better_than(cand[i], cand[j])]]
    /\ pc' = "cmp_done"
    /\ UNCHANGED <<validator_balances, overflow_checks, shard,
                   current_epoch_attestations, previous_epoch_attestations,
                   crosslink_data_roots, winning_root_opt, lookups, last_call,
                   scored, result, cand>>

NextCmp == Compare

SpecCmp == InitCmp /\ [][NextCmp]_vars

-----------------------------------------------------------------------------
(* Vocabulary of the properties, defined on the arguments alone *)

Done == pc = "done"

ReturnedSome == Done /\ result.kind = "Ok" /\ result.value # None

Winner == result.value[1]

AllAttestations == current_epoch_attestations \o previous_epoch_attestations

(* The records of a list that carry shard `s` and root `r`, in list order. *)
RecordsFor(list, s, r) ==
    SelectSeq(list, LAMBDA a : a.shard = s /\ a.crosslink_data_root = r)

ShardRoots ==
    {AllAttestations[i].crosslink_data_root :
        i \in {j \in DOMAIN AllAttestations : AllAttestations[j].shard = shard}}

RECURSIVE Participants(_)
Participants(records) ==
    IF records = <<>>
    THEN <<>>
    ELSE Head(records).participants.indices \o Participants(Tail(records))

Count(v, seq) == Cardinality({i \in DOMAIN seq : seq[i] = v})

RECURSIVE SumOver(_, _)
SumOver(vs, seq) ==
    IF vs = {}
    THEN 0
    ELSE LET v == CHOOSE x \in vs : TRUE
         IN  Count(v, seq) * validator_balances[v + 1] + SumOver(vs \ {v}, seq)

(* The sum of the effective balances of `seq`, once per occurrence. *)
SumOccurrences(seq) == SumOver({seq[i] : i \in DOMAIN seq}, seq)

(* The indices and the balance the records of root `r` stand for. *)
IndicesOf(cur, prev, r) ==
    Participants(RecordsFor(cur, shard, r) \o RecordsFor(prev, shard, r))

BalanceOf(r) ==
    SumOccurrences(IndicesOf(current_epoch_attestations,
                             previous_epoch_attestations, r))

(* The balance winning_root computes for root `r` from the lists `cur`, `prev`:
   "none" when a lookup fails. *)
ScoreOf(cur, prev, r) ==
    LET got == get_attesting_validator_indices(shard, cur, prev, r)
    IN  IF got.err # "none"
        THEN [status |-> "none", value |-> 0]
        ELSE total_attesting_balance(validator_balances, got.indices, overflow_checks)

(* The candidate's balance scored for root `r` of the arguments. *)
Scored(r) == ScoreOf(current_epoch_attestations, previous_epoch_attestations, r)

FailingRecords ==
    {i \in DOMAIN AllAttestations :
        /\ AllAttestations[i].shard = shard
        /\ AllAttestations[i].participants.err # "none"}

(* The orders in which a set can be enumerated. *)
Orders(S) ==
    {f \in [1..Cardinality(S) -> S] : \A i, j \in DOMAIN f : f[i] = f[j] => i = j}

(* The rearrangements of a list. *)
Shuffles(list) == {[i \in DOMAIN list |-> list[f[i]]] : f \in Orders(DOMAIN list)}

SameBag(p, q) ==
    /\ Len(p) = Len(q)
    /\ \A v \in {p[i] : i \in DOMAIN p} \cup {q[i] : i \in DOMAIN q} :
           Count(v, p) = Count(v, q)

-----------------------------------------------------------------------------
(* C1: a returned winner carries a root attested for the shard, and every other
   root attested for the shard has a lower attesting balance, or the same
   balance and a greater root. *)
C1_WinnerIsBest ==
    ReturnedSome =>
        /\ Winner.crosslink_data_root \in ShardRoots
        /\ \A r \in ShardRoots \ {Winner.crosslink_data_root} :
               /\ Scored(r).status = "ok"
               /\ Scored(r).value = BalanceOf(r)
               /\ \/ Scored(r).value < Winner.total_attesting_balance
                  \/ /\ Scored(r).value = Winner.total_attesting_balance
                     /\ r > Winner.crosslink_data_root

(* A winner returned over another root of the same balance. *)
C1_Witness ==
    /\ ReturnedSome
    /\ \E r \in ShardRoots \ {Winner.crosslink_data_root} :
           BalanceOf(r) = Winner.total_attesting_balance

(* C2: whatever order the HashSet yields the roots in, the call gives back the
   same result, error value included. *)
C2_OrderIndependent ==
    Done => \A order \in Orders(ShardRoots) : winning_root(Args, order) = result

(* C3 as stated: shuffling each list leaves the returned candidate the same in
   every field, the sequence of indices included. *)
C3_ShuffleSameCandidate ==
    ReturnedSome =>
        \A cur \in Shuffles(current_epoch_attestations) :
            \A prev \in Shuffles(previous_epoch_attestations) :
                \A order \in Orders(ShardRoots) :
                    winning_root([Args EXCEPT !.cur = cur, !.prev = prev], order)
                        = result

(* C3 amended: shuffling each list leaves the returned candidate's root and
   total attesting balance the same, and its indices the same up to order. *)
C3_ShuffleSameBag ==
    ReturnedSome =>
        \A cur \in Shuffles(current_epoch_attestations) :
            \A prev \in Shuffles(previous_epoch_attestations) :
                \A order \in Orders(ShardRoots) :
                    \A other \in
                            {winning_root([Args EXCEPT !.cur = cur, !.prev = prev],
                                          order)} :
                        /\ other.kind = "Ok"
                        /\ other.value # None
                        /\ other.value[1].crosslink_data_root
                               = Winner.crosslink_data_root
                        /\ other.value[1].total_attesting_balance
                               = Winner.total_attesting_balance
                        /\ SameBag(other.value[1].attesting_validator_indices,
                                   Winner.attesting_validator_indices)

(* A winner whose list holds two records of its root with different
   participants. *)
C3_Witness ==
    /\ ReturnedSome
    /\ \E list \in {current_epoch_attestations, previous_epoch_attestations} :
           LET mine == RecordsFor(list, shard, Winner.crosslink_data_root)
           IN  Len(mine) >= 2 /\ mine[1] # mine[2]

(* C4: with no record of the requested shard in either list, the call hands no
   record to the participant lookup and returns Ok(None). *)
C4_NoMatchNoWinner ==
    (\A i \in DOMAIN AllAttestations : AllAttestations[i].shard # shard) =>
        /\ lookups = <<>>
        /\ result.kind \in {"Pending", "Ok"}
        /\ Done => result = [kind |-> "Ok", err |-> "none", value |-> None]

(* The call has returned, no record is of the requested shard, and a record of
   another shard has a failing lookup. *)
C4_Witness ==
    /\ Done
    /\ \A i \in DOMAIN AllAttestations : AllAttestations[i].shard # shard
    /\ \E i \in DOMAIN AllAttestations :
           AllAttestations[i].participants.err # "none"

(* C5: a returned candidate's balance is the sum of the effective balances of
   its indices, once per occurrence; an index credited by a current-epoch and
   by a previous-epoch record of the winning root occurs at least twice. *)
C5_BalancePerOccurrence ==
    ReturnedSome =>
        /\ Winner.total_attesting_balance
               = SumOccurrences(Winner.attesting_validator_indices)
        /\ \A v \in Validators :
               (/\ Count(v, Participants(RecordsFor(current_epoch_attestations,
                              shard, Winner.crosslink_data_root))) >= 1
                /\ Count(v, Participants(RecordsFor(previous_epoch_attestations,
                              shard, Winner.crosslink_data_root))) >= 1)
                   => Count(v, Winner.attesting_validator_indices) >= 2

(* A winner with an index credited in both epochs. *)
C5_Witness ==
    /\ ReturnedSome
    /\ \E v \in Validators :
           /\ Count(v, Participants(RecordsFor(current_epoch_attestations,
                        shard, Winner.crosslink_data_root))) >= 1
           /\ Count(v, Participants(RecordsFor(previous_epoch_attestations,
                        shard, Winner.crosslink_data_root))) >= 1

(* C6: when the lookup of some record of the requested shard fails, the call
   returns an error, the one of such a record, and never an Ok result. *)
C6_FailFast ==
    (Done /\ FailingRecords # {}) =>
        /\ result.kind = "Err"
        /\ \E i \in FailingRecords :
               result.err = AllAttestations[i].participants.err

(* An error returned after a candidate for another root had been scored. *)
C6_Witness ==
    /\ Done
    /\ FailingRecords # {}
    /\ scored >= 1
    /\ winning_root_opt # None

(* The fold over `indices` reaches an index outside the registry. *)
RECURSIVE ReachesUnknown(_, _)
ReachesUnknown(indices, acc) ==
    /\ indices # <<>>
    /\ \/ ~KnownValidator(validator_balances, Head(indices))
       \/ LET sum == AddU64(acc,
                            get_effective_balance(validator_balances, Head(indices)),
                            overflow_checks)
          IN  sum.status = "ok" /\ ReachesUnknown(Tail(indices), sum.value)

(* C7: when scoring a candidate needs the effective balance of an index
   outside the registry, the call returns the error UnknownValidator. *)
C7_UnknownValidatorError ==
    (/\ Done
     /\ last_call # None
     /\ last_call[1].err = "none"
     /\ ReachesUnknown(last_call[1].indices, 0))
        => result.kind = "Err" /\ result.err = "UnknownValidator"

(* C8: is_better_than never holds both ways; between candidates of different
   roots it holds exactly one way, by balance, or by the lower root on equal
   balances; it is transitive; it reads the balance and the root alone. *)
C8_StrictTotalOrder ==
    pc = "cmp_done" =>
        /\ \A i, j \in 1..3 : ~(better[i][j] /\ better[j][i])
        /\ \A i, j \in 1..3 :
               cand[i].crosslink_data_root # cand[j].crosslink_data_root =>
                   /\ better[i][j] # better[j][i]
                   /\ cand[i].total_attesting_balance
                          > cand[j].total_attesting_balance => better[i][j]
                   /\ (/\ cand[i].total_attesting_balance
                              = cand[j].total_attesting_balance
                       /\ cand[i].crosslink_data_root < cand[j].crosslink_data_root)
                          => better[i][j]
        /\ \A i, j, k \in 1..3 : (better[i][j] /\ better[j][k]) => better[i][k]
        /\ \A i, j, k, l \in 1..3 :
               (/\ cand[i].total_attesting_balance = cand[k].total_attesting_balance
                /\ cand[i].crosslink_data_root = cand[k].crosslink_data_root
                /\ cand[j].total_attesting_balance = cand[l].total_attesting_balance
                /\ cand[j].crosslink_data_root = cand[l].crosslink_data_root)
                   => better[i][j] = better[k][l]

(* Three candidates of three roots, two of them level on balance, compared. *)
C8_Witness ==
    /\ pc = "cmp_done"
    /\ cand[1].crosslink_data_root < cand[2].crosslink_data_root
    /\ cand[2].crosslink_data_root < cand[3].crosslink_data_root
    /\ cand[2].total_attesting_balance = cand[3].total_attesting_balance
    /\ cand[1].total_attesting_balance < cand[2].total_attesting_balance
    /\ cand[2].attesting_validator_indices # cand[3].attesting_validator_indices
    /\ better[2][3] /\ better[3][1] /\ better[2][1]

Front(list) == SubSeq(list, 1, Len(list) - 1)

AllKnown(list) ==
    \A i \in DOMAIN list :
        \A k \in DOMAIN list[i].participants.indices :
            KnownValidator(validator_balances, list[i].participants.indices[k])

(* The balance of the last record's root is not lower with the record, last in
   `list`, than without it. *)
GrowsWith(list, with, without) ==
    (/\ list # <<>>
     /\ list[Len(list)].shard = shard
     /\ AllKnown(AllAttestations)
     /\ with.status # "none"
     /\ without.status = "ok")
        => with.status = "ok" /\ with.value >= without.value

(* C9: one more record for a shard and root, its lookup succeeding, never
   lowers the total attesting balance computed for that root. *)
C9_BalanceMonotone ==
    Done =>
        /\ current_epoch_attestations # <<>> =>
               LET r == current_epoch_attestations[
                            Len(current_epoch_attestations)].crosslink_data_root
               IN  GrowsWith(current_epoch_attestations,
                       ScoreOf(current_epoch_attestations,
                               previous_epoch_attestations, r),
                       ScoreOf(Front(current_epoch_attestations),
                               previous_epoch_attestations, r))
        /\ previous_epoch_attestations # <<>> =>
               LET r == previous_epoch_attestations[
                            Len(previous_epoch_attestations)].crosslink_data_root
               IN  GrowsWith(previous_epoch_attestations,
                       ScoreOf(current_epoch_attestations,
                               previous_epoch_attestations, r),
                       ScoreOf(current_epoch_attestations,
                               Front(previous_epoch_attestations), r))

(* C10: every record get_attesting_validator_indices hands to the lookup is of
   the requested shard and root; when all those lookups succeed it has handed
   over all such records, the current-epoch ones first, each list in order, and
   it returns their participants concatenated in that order. *)
C10_IndicesConcatenated ==
    last_call # None =>
        LET c == last_call[1]
            mine == RecordsFor(current_epoch_attestations, shard, c.root)
                        \o RecordsFor(previous_epoch_attestations, shard, c.root)
        IN  /\ \A k \in DOMAIN c.calls :
                   /\ c.calls[k].shard = shard
                   /\ c.calls[k].crosslink_data_root = c.root
            /\ c.err = "none" =>
                   /\ c.calls = mine
                   /\ c.indices = Participants(mine)

(* A successful call with a record in each list for its root, of different
   participants. *)
C10_Witness ==
    /\ last_call # None
    /\ last_call[1].err = "none"
    /\ Len(RecordsFor(current_epoch_attestations, shard, last_call[1].root)) >= 1
    /\ Len(RecordsFor(previous_epoch_attestations, shard, last_call[1].root)) >= 1
    /\ RecordsFor(current_epoch_attestations, shard, last_call[1].root)[1]
           # RecordsFor(previous_epoch_attestations, shard, last_call[1].root)[1]

====
